---- MODULE Spec2Model ----
(***************************************************************************)
(* Model of the Azure DevOps adapter of multi-gitter                       *)
(* (internal/scm/azuredevopsservice): the pull-request status conversion,  *)
(* the reviewer/label reconciler, the once-guarded identity prefetch, the  *)
(* CreatePullRequest / UpdatePullRequest / ClosePullRequest handlers, the  *)
(* identity resolution and the repository listing with both                *)
(* convertRepository functions the source holds.                           *)
(*                                                                         *)
(* Conventions.                                                            *)
(*   - A Go pointer is a sequence of length <= 1: <<>> is nil, <<v>> points *)
(*     to v.                                                               *)
(*   - A Go string that the code takes apart (a ref name) is a sequence of *)
(*     chunks, e.g. "refs/heads/feat-2" is <<"refs/","heads/","feat","-2">>;*)
(*     any other string is an atom.                                        *)
(*   - A call of the provider SDK is recorded in a call log; whether it    *)
(*     fails is the environment's choice.                                  *)
(***************************************************************************)
EXTENDS Integers, Sequences, FiniteSets, TLC

VARIABLES
    nativePullRequest,  \* pullrequest.go: the git.GitPullRequest handed to convertPullRequest
    converted,          \* pullrequest.go: what convertPullRequest returned for it
    recon,              \* pullrequest.go: a reconciliation (setPullRequestReviewers/Labels) and the provider state it runs against
    once,               \* azuredevopsservice.go:50 Cache.prefetch (sync.Once): done flag and mutex holder
    Cache,              \* azuredevopsservice.go:45-51 Cache fields Author, Reviewers, TeamReviewers, Assignees
    prefetchLog,        \* the executions of PrefetchData on this service instance: arguments, error and the cache it left
    th,                 \* the callers' goroutines: position in CreatePullRequest / UpdatePullRequest and arguments
    last,               \* the last handler call that ended: arguments, provider calls it issued, outcome
    listing,            \* azuredevopsservice.go:39-43, 158-211: a RepositoryListing, the provider's projects and repositories, what GetRepositories and convertRepository returned
    lookup              \* identity.go:105-139: the names handed to getLegacyIdentities and what it returned

vars == <<listing, lookup, nativePullRequest, converted, recon, once, Cache, prefetchLog, th, last>>

-----------------------------------------------------------------------------
(* Pointers *)

Nil == <<>>

Ptr(v) == <<v>>

IsNil(p) == p = <<>>

Deref(p) == p[1]

-----------------------------------------------------------------------------
(* pullrequest.go: status conversion *)

\* git.PullRequestStatusValues
PullRequestStatusValues == {"notSet", "active", "abandoned", "completed", "all"}

\* git.PullRequestAsyncStatusValues
PullRequestAsyncStatusValues ==
    {"notSet", "queued", "conflicts", "succeeded", "rejectedByPolicy", "failure"}

\* ActiveStatus with the merge status not-set mapped like queued.
ActiveStatus_NotSetPending(mergeStatus) ==
    CASE mergeStatus = "rejectedByPolicy" -> "pending"
      [] mergeStatus = "failure" -> "pending"
      [] mergeStatus = "conflicts" -> "error"
      [] mergeStatus = "succeeded" -> "success"
      [] mergeStatus = "notSet" -> "pending"
      [] mergeStatus = "queued" -> "pending"
      [] OTHER -> "pending"

\* The inner switch of convertPullRequestStatus (pullrequest.go:71-83).  A Go
\* case does not fall through: the empty cases RejectedByPolicy and Failure
\* leave the switch and reach the return after it (line 83).
ActiveStatus(mergeStatus) ==
    CASE mergeStatus = "rejectedByPolicy" -> "pending"
      [] mergeStatus = "failure" -> "pending"
      [] mergeStatus = "conflicts" -> "error"
      [] mergeStatus = "succeeded" -> "success"
      [] mergeStatus = "notSet" -> "unknown"
      [] mergeStatus = "queued" -> "pending"
      [] OTHER -> "pending"

convertPullRequestStatus(prStatus, mergeStatus) ==
    CASE prStatus = "notSet" -> "unknown"
      [] prStatus = "active" -> ActiveStatus(mergeStatus)
      [] prStatus = "abandoned" -> "closed"
      [] prStatus = "completed" -> "merged"
      [] prStatus = "all" -> "unknown"
      [] OTHER -> "unknown"

\* convertPullRequest (pullrequest.go:40-64).  A nil pull request is
\* dereferenced at line 43: the conversion panics.
convertPullRequest(pr) ==
    IF IsNil(pr) THEN [panic |-> TRUE, pr |-> Nil]
    ELSE LET n == Deref(pr) IN
         [panic |-> FALSE,
          pr |-> Ptr([id |-> n.PullRequestId,
                      status |-> convertPullRequestStatus(n.Status, n.MergeStatus),
                      isDraft |-> n.IsDraft,
                      sourceGitRef |-> n.SourceRefName,
                      targetGitRef |-> n.TargetRefName,
                      lastMergeSourceCommitId |->
                          IF IsNil(n.LastMergeSourceCommit) THEN ""
                          ELSE Deref(n.LastMergeSourceCommit)])]

-----------------------------------------------------------------------------
(* Provider calls and Go maps *)

\* One call of the provider SDK's git client, as the call log records it.
Call(api, arg) == [api |-> api, arg |-> arg]

\* m[k] = v of a Go map: the key is added when absent.
Put(m, k, v) == [x \in (DOMAIN m) \cup {k} |-> IF x = k THEN v ELSE m[x]]

\* The empty Go map.
EmptyMap == [x \in {} |-> FALSE]

\* The keys a map still marks "not to keep".
Unwanted(keep) == {k \in DOMAIN keep : ~keep[k]}

\* The orders in which `for k := range m` can visit the keys S: Go leaves the
\* iteration order of a map unspecified.
Orders(S) == {o \in [1..Cardinality(S) -> S] : \A i, j \in DOMAIN o : o[i] = o[j] => i = j}

Range(f) == {f[i] : i \in DOMAIN f}

-----------------------------------------------------------------------------
(* identity.go *)

\* converToIdentityWithVoteForNewPullRequest (identity.go:25-36): Id, Vote and
\* IsRequired are set; DisplayName (and every other field) stays nil.
converToIdentityWithVoteForNewPullRequest(descriptors, isRequired) ==
    [i \in 1..Len(descriptors) |->
        [Id |-> descriptors[i].IMSId,
         Vote |-> 0,
         IsRequired |-> isRequired,
         DisplayName |-> Nil]]

-----------------------------------------------------------------------------
(* pullrequest.go: label reconciliation *)

\* getPullRequestLabels (pullrequest.go:94-118), after a successful provider
\* call returning `tags` (a pointer to the list of label names).  Line 111
\* makes a slice of len(*tags) empty strings and line 113 appends to it.
getPullRequestLabels(tags) ==
    IF IsNil(tags) THEN <<>>
    ELSE [i \in 1..Len(Deref(tags)) |-> ""] \o Deref(tags)

\* existingLabels, pullrequest.go:149-152.
RECURSIVE ToKeepMap(_, _)
ToKeepMap(keys, i) ==
    IF i > Len(keys) THEN EmptyMap
    ELSE Put(ToKeepMap(keys, i + 1), keys[i], FALSE)

\* The loop "Check and create labels if needed", pullrequest.go:155-173.
\* st = [keep, calls, failed]; a failed create is logged (line 169) and the
\* label is marked kept all the same (line 171).
RECURSIVE labelsCreateLoop(_, _, _, _)
labelsCreateLoop(labels, i, st, failing) ==
    IF i > Len(labels) THEN st
    ELSE LET newLabel == labels[i]
             c == Call("CreatePullRequestLabel", newLabel)
         IN  IF newLabel \in DOMAIN st.keep
             THEN labelsCreateLoop(labels, i + 1,
                      [st EXCEPT !.keep = Put(@, newLabel, TRUE)], failing)
             ELSE labelsCreateLoop(labels, i + 1,
                      [keep |-> Put(st.keep, newLabel, TRUE),
                       calls |-> Append(st.calls, c),
                       failed |-> IF c \in failing THEN st.failed \cup {c} ELSE st.failed],
                      failing)

\* The loop "Delete unwanted labels", pullrequest.go:178-190, visiting the
\* unwanted keys in the order `order`.
RECURSIVE labelsDeleteLoop(_, _, _, _)
labelsDeleteLoop(order, i, st, failing) ==
    IF i > Len(order) THEN st
    ELSE LET c == Call("DeletePullRequestLabels", order[i])
         IN  labelsDeleteLoop(order, i + 1,
                 [st EXCEPT !.calls = Append(@, c),
                            !.failed = IF c \in failing THEN @ \cup {c} ELSE @],
                 failing)

\* The state of setPullRequestLabels at line 175, between its two loops.
labelsAfterCreate(tags, labels, failing) ==
    LET currentLabels == getPullRequestLabels(tags)
    IN  labelsCreateLoop(labels, 1,
            [keep |-> ToKeepMap(currentLabels, 1), calls |-> <<>>, failed |-> {}],
            failing)

\* setPullRequestLabels (pullrequest.go:135-191).  `tags` is what the provider
\* returns for GetPullRequestLabels, `failing` the calls that fail, `order` the
\* order in which the second loop visits the unwanted labels.  The function
\* returns nothing: a failure to make the client or to list the labels is
\* logged and ends it.
setPullRequestLabels(tags, labels, failing, order) ==
    LET get == Call("GetPullRequestLabels", "")
        newClient == Call("newGitClient", "setPullRequestLabels")
    IN  IF newClient \in failing
        THEN [calls |-> <<>>, failed |-> {newClient}, outcome |-> "ok"]
        ELSE IF get \in failing
        THEN [calls |-> <<get>>, failed |-> {get}, outcome |-> "ok"]
        ELSE LET st == labelsAfterCreate(tags, labels, failing)
                 end == labelsDeleteLoop(order, 1, st, failing)
             IN  [calls |-> <<get>> \o end.calls, failed |-> end.failed, outcome |-> "ok"]

-----------------------------------------------------------------------------
(* pullrequest.go: reviewer reconciliation *)

\* The loop "Check and add reviewer if needed", pullrequest.go:249-266.
\* st = [keep, calls, failed, panic].  The warning of line 262 dereferences
\* reviewerToAdd.DisplayName: with a nil DisplayName a failed create panics.
RECURSIVE reviewersCreateLoop(_, _, _, _)
reviewersCreateLoop(reviewers, i, st, failing) ==
    IF i > Len(reviewers) \/ st.panic THEN st
    ELSE LET reviewerToAdd == reviewers[i]
             c == Call("CreatePullRequestReviewer", reviewerToAdd.Id)
         IN  IF reviewerToAdd.Id \in DOMAIN st.keep
             THEN reviewersCreateLoop(reviewers, i + 1,
                      [st EXCEPT !.keep = Put(@, reviewerToAdd.Id, TRUE)], failing)
             ELSE IF c \in failing /\ IsNil(reviewerToAdd.DisplayName)
             THEN [st EXCEPT !.calls = Append(@, c),
                             !.failed = @ \cup {c},
                             !.panic = TRUE]
             ELSE reviewersCreateLoop(reviewers, i + 1,
                      [keep |-> Put(st.keep, reviewerToAdd.Id, TRUE),
                       calls |-> Append(st.calls, c),
                       failed |-> IF c \in failing THEN st.failed \cup {c} ELSE st.failed,
                       panic |-> FALSE],
                      failing)

\* The loop deleting the unwanted reviewers, pullrequest.go:271-283.
RECURSIVE reviewersDeleteLoop(_, _, _, _)
reviewersDeleteLoop(order, i, st, failing) ==
    IF i > Len(order) THEN st
    ELSE LET c == Call("DeletePullRequestReviewer", order[i])
         IN  reviewersDeleteLoop(order, i + 1,
                 [st EXCEPT !.calls = Append(@, c),
                            !.failed = IF c \in failing THEN @ \cup {c} ELSE @],
                 failing)

\* The state of setPullRequestReviewers at line 268, between its two loops.
\* `existingReviewers` is the list of reviewer ids the provider returned.
reviewersAfterCreate(existingReviewers, reviewers, failing) ==
    reviewersCreateLoop(reviewers, 1,
        [keep |-> ToKeepMap(existingReviewers, 1), calls |-> <<>>, failed |-> {},
         panic |-> FALSE],
        failing)

\* setPullRequestReviewers (pullrequest.go:227-286): outcome "err" when the
\* client cannot be made (line 230) or the listing fails (line 239), "panic" when line 262 panics, else "ok" (nil).
setPullRequestReviewers(existingReviewers, reviewers, failing, order) ==
    LET get == Call("GetPullRequestReviewers", "")
        newClient == Call("newGitClient", "setPullRequestReviewers")
    IN  IF newClient \in failing
        THEN [calls |-> <<>>, failed |-> {newClient}, outcome |-> "err"]
        ELSE IF get \in failing
        THEN [calls |-> <<get>>, failed |-> {get}, outcome |-> "err"]
        ELSE LET st == reviewersAfterCreate(existingReviewers, reviewers, failing)
             IN  IF st.panic
                 THEN [calls |-> <<get>> \o st.calls, failed |-> st.failed,
                       outcome |-> "panic"]
                 ELSE LET end == reviewersDeleteLoop(order, 1, st, failing)
                      IN  [calls |-> <<get>> \o end.calls, failed |-> end.failed,
                           outcome |-> "ok"]

-----------------------------------------------------------------------------
(* The provider's side of a reconciliation *)

MaxExisting == 2

MaxDesired == 2

MaxRuns == 2

\* Label names / reviewer ids that occur on pull requests.
Items == {"A", "B", "C"}

\* Sequences over S of length at most n.
SeqsUpTo(S, n) == UNION {[1..k -> S] : k \in 0..n}

\* Lists without repetition: what the provider returns for the labels or the
\* reviewers of a pull request.
Lists(S, n) == {l \in SeqsUpTo(S, n) : \A i, j \in DOMAIN l : l[i] = l[j] => i = j}

RECURSIVE Without(_, _)
Without(l, S) ==
    IF l = <<>> THEN <<>>
    ELSE IF Head(l) \in S THEN Without(Tail(l), S)
    ELSE <<Head(l)>> \o Without(Tail(l), S)

RECURSIVE AppendNew(_, _)
AppendNew(l, new) ==
    IF new = <<>> THEN l
    ELSE IF Head(new) \in Range(l) THEN AppendNew(l, Tail(new))
    ELSE AppendNew(Append(l, Head(new)), Tail(new))

\* The items of the calls of `calls` to `api` that succeeded.
RECURSIVE Succeeded(_, _, _)
Succeeded(calls, api, failed) ==
    IF calls = <<>> THEN <<>>
    ELSE IF Head(calls).api = api /\ Head(calls) \notin failed
    THEN <<Head(calls).arg>> \o Succeeded(Tail(calls), api, failed)
    ELSE Succeeded(Tail(calls), api, failed)

\* The provider's list after the calls of one reconciliation: a successful
\* create adds the item, a successful delete removes it.
ProviderAfter(existing, run, createApi, deleteApi) ==
    Without(AppendNew(existing, Succeeded(run.calls, createApi, run.failed)),
            Range(Succeeded(run.calls, deleteApi, run.failed)))

\* The failures the environment can choose for one reconciliation: the client
\* or the listing fails, or any of the create and delete calls do.
\* At most n of the create and delete calls fail.
Failures(fn, getApi, createApi, created, deleteApi, deleted, n) ==
    {{Call("newGitClient", fn)}, {Call(getApi, "")}}
    \cup {f \in SUBSET ({Call(createApi, k) : k \in created}
                        \cup {Call(deleteApi, k) : k \in deleted}) : Cardinality(f) <= n}

ReconInit ==
    recon \in [kind : {"labels", "reviewers"},
                  existing : Lists(Items, MaxExisting),
                  desired : SeqsUpTo(Items, MaxDesired),
                  runs : {<<>>}]

\* UpdatePullRequest's call of setPullRequestLabels (azuredevopsservice.go:378).
ReconcileLabels ==
    /\ recon.kind = "labels"
    /\ Len(recon.runs) < MaxRuns
    /\ LET current == Range(getPullRequestLabels(Ptr(recon.existing)))
       IN  \E failing \in Failures("setPullRequestLabels", "GetPullRequestLabels",
                                    "CreatePullRequestLabel", Range(recon.desired) \ current,
                                    "DeletePullRequestLabels", current \ Range(recon.desired),
                                    MaxExisting + MaxDesired + 1) :
           \E order \in Orders(Unwanted(labelsAfterCreate(Ptr(recon.existing), recon.desired, failing).keep)) :
              LET run == setPullRequestLabels(Ptr(recon.existing), recon.desired, failing, order)
              IN  recon' = [recon EXCEPT
                      !.existing = ProviderAfter(@, run, "CreatePullRequestLabel",
                                                 "DeletePullRequestLabels"),
                      !.runs = Append(@, [before |-> recon.existing] @@ run)]
    /\ UNCHANGED <<listing, lookup, nativePullRequest, converted, once, Cache, prefetchLog, th, last>>

\* UpdatePullRequest's call of setPullRequestReviewers
\* (azuredevopsservice.go:361-366) with the identities the cache holds.
ReconcileReviewers ==
    /\ recon.kind = "reviewers"
    /\ Len(recon.runs) < MaxRuns
    /\ LET reviewers == converToIdentityWithVoteForNewPullRequest(
                            [i \in 1..Len(recon.desired) |-> [IMSId |-> recon.desired[i]]], FALSE)
           current == Range(recon.existing)
       IN  \E failing \in Failures("setPullRequestReviewers", "GetPullRequestReviewers",
                                    "CreatePullRequestReviewer", Range(recon.desired) \ current,
                                    "DeletePullRequestReviewer", current \ Range(recon.desired),
                                    MaxExisting + MaxDesired + 1) :
           \E order \in Orders(Unwanted(reviewersAfterCreate(recon.existing, reviewers, failing).keep)) :
              LET run == setPullRequestReviewers(recon.existing, reviewers, failing, order)
              IN  recon' = [recon EXCEPT
                      !.existing = ProviderAfter(@, run, "CreatePullRequestReviewer",
                                                 "DeletePullRequestReviewer"),
                      !.runs = Append(@, [before |-> recon.existing] @@ run)]
    /\ UNCHANGED <<listing, lookup, nativePullRequest, converted, once, Cache, prefetchLog, th, last>>

-----------------------------------------------------------------------------
(* Strings the code takes apart: sequences of chunks *)

\* fmt.Sprintf("refs/heads/%s", branch), azuredevopsservice.go:294-295, 330.
RefsHeads(branch) == <<"refs/", "heads/">> \o branch

\* strings.Replace(s, old, "", 1) for a one-chunk `old`: the first occurrence
\* is removed.
RECURSIVE RemoveFirst(_, _)
RemoveFirst(s, old) ==
    IF s = <<>> THEN <<>>
    ELSE IF Head(s) = old THEN Tail(s)
    ELSE <<Head(s)>> \o RemoveFirst(Tail(s), old)

\* s starts with p.
HasPrefix(s, p) == Len(p) <= Len(s) /\ SubSeq(s, 1, Len(p)) = p

-----------------------------------------------------------------------------
(* identity.go: identity resolution *)

\* The provider's answer to ReadIdentities with the General search filter:
\* the identities matching a name, best match first.
ReadIdentities(name) ==
    LET Identity(id) == [Id |-> id, SubjectDescriptor |-> id, ProviderDisplayName |-> id]
    IN  CASE name = "alice" -> <<Identity("id-alice")>>
          [] name = "bob" -> <<Identity("id-bob")>>
          [] name = "team" -> <<Identity("id-team"), Identity("id-team-b")>>
          [] OTHER -> <<>>

\* The loop of getLegacyIdentities, identity.go:113-136.
RECURSIVE legacyIdentitiesLoop(_, _, _, _)
legacyIdentitiesLoop(identities, i, descriptors, failing) ==
    IF i > Len(identities) THEN [err |-> FALSE, descriptors |-> descriptors]
    ELSE IF Call("ReadIdentities", identities[i]) \in failing
    THEN [err |-> TRUE, descriptors |-> <<>>]
    ELSE LET possibleIdentities == ReadIdentities(identities[i])
         IN  IF Len(possibleIdentities) >= 1
             THEN legacyIdentitiesLoop(identities, i + 1,
                      Append(descriptors,
                             [VSId |-> possibleIdentities[1].SubjectDescriptor,
                              IMSId |-> possibleIdentities[1].Id,
                              DisplayName |-> possibleIdentities[1].ProviderDisplayName]),
                      failing)
             ELSE legacyIdentitiesLoop(identities, i + 1, descriptors, failing)

\* A lookup in which a name without match is an error.
getLegacyIdentities_NoMatchIsError(identities, failing) ==
    IF Call("newIdentityClient", "") \in failing
       \/ \E i \in DOMAIN identities : ReadIdentities(identities[i]) = <<>>
    THEN [err |-> TRUE, descriptors |-> <<>>]
    ELSE legacyIdentitiesLoop(identities, 1, <<>>, failing)

\* getLegacyIdentities (identity.go:105-139).
getLegacyIdentities(identities, failing) ==
    IF Call("newIdentityClient", "") \in failing
    THEN [err |-> TRUE, descriptors |-> <<>>]
    ELSE legacyIdentitiesLoop(identities, 1, <<>>, failing)

\* The provider's answer to the graph QuerySubjects for the kinds User and
\* Group: the subjects matching a name, best match first.
QuerySubjects(name) ==
    LET Subject(d, kind) == [Descriptor |-> d, DisplayName |-> d, SubjectKind |-> kind]
    IN  CASE name = "alice" -> <<Subject("vs-alice", "User")>>
          [] name = "bob" -> <<Subject("vs-bob", "User")>>
          [] name = "team" -> <<Subject("vs-team", "Group"), Subject("vs-team-b", "Group")>>
          [] OTHER -> <<>>

\* The first loop of getIdentities, identity.go:52-79.
RECURSIVE identitiesLoop(_, _, _, _)
identitiesLoop(identities, i, descriptors, failing) ==
    IF i > Len(identities) THEN [err |-> FALSE, descriptors |-> descriptors]
    ELSE IF Call("QuerySubjects", identities[i]) \in failing
    THEN [err |-> TRUE, descriptors |-> <<>>]
    ELSE LET possibleIdentities == QuerySubjects(identities[i])
         IN  IF Len(possibleIdentities) >= 1
             THEN identitiesLoop(identities, i + 1,
                      Append(descriptors,
                             [VSId |-> possibleIdentities[1].Descriptor,
                              IMSId |-> Nil,
                              DisplayName |-> possibleIdentities[1].DisplayName,
                              Type |-> possibleIdentities[1].SubjectKind]),
                      failing)
             ELSE identitiesLoop(identities, i + 1, descriptors, failing)

\* getIdentities (identity.go:39-103).  The loop of lines 91-100 assigns the
\* legacy id to its loop variable, a copy: the descriptors returned keep a
\* nil IMSId.
getIdentities(identities, failing) ==
    LET matched == identitiesLoop(identities, 1, <<>>, failing)
    IN  IF Call("newGraphClient", "") \in failing \/ Call("newIdentityClient", "") \in failing
        THEN [err |-> TRUE, descriptors |-> <<>>]
        ELSE IF matched.err THEN matched
        ELSE IF Call("ReadIdentityBatch", "") \in failing
        THEN [err |-> TRUE, descriptors |-> <<>>]
        ELSE matched

\* getCurrentIdentity (identity.go:141-158).
getCurrentIdentity(failing) ==
    IF Call("GetConnectionData", "") \in failing
    THEN [err |-> TRUE, descriptor |-> Nil]
    ELSE [err |-> FALSE,
          descriptor |-> Ptr([VSId |-> "id-me", IMSId |-> "id-me", DisplayName |-> "id-me"])]

-----------------------------------------------------------------------------
(* azuredevopsservice.go: the identity prefetch *)

\* PrefetchData (azuredevopsservice.go:128-156): the cache it leaves and
\* whether it returns an error.  Each field is assigned as soon as its lookup
\* succeeded; the first failed lookup returns.
PrefetchData(cache, forPR, failing) ==
    LET author == getCurrentIdentity(failing)
        userReviewers == getLegacyIdentities(forPR.Reviewers, failing)
        teamReviewers == getLegacyIdentities(forPR.TeamReviewers, failing)
        assignees == getLegacyIdentities(forPR.Assignees, failing)
        c1 == [cache EXCEPT !.Author = author.descriptor]
        c2 == [c1 EXCEPT !.Reviewers =
                  Ptr(converToIdentityWithVoteForNewPullRequest(userReviewers.descriptors, FALSE))]
        c3 == [c2 EXCEPT !.TeamReviewers =
                  Ptr(converToIdentityWithVoteForNewPullRequest(teamReviewers.descriptors, FALSE))]
        c4 == [c3 EXCEPT !.Assignees =
                  Ptr(converToIdentityWithVoteForNewPullRequest(assignees.descriptors, TRUE))]
    IN  IF author.err THEN [Cache |-> cache, err |-> TRUE]
        ELSE IF userReviewers.err THEN [Cache |-> c1, err |-> TRUE]
        ELSE IF teamReviewers.err THEN [Cache |-> c2, err |-> TRUE]
        ELSE IF assignees.err THEN [Cache |-> c3, err |-> TRUE]
        ELSE [Cache |-> c4, err |-> FALSE]

\* The failures the environment can choose for one prefetch.
PrefetchFailures(forPR) ==
    SUBSET ({Call("GetConnectionData", ""), Call("newIdentityClient", "")}
            \cup {Call("ReadIdentities", n) :
                    n \in Range(forPR.Reviewers) \cup Range(forPR.TeamReviewers)
                          \cup Range(forPR.Assignees)})

-----------------------------------------------------------------------------
(* azuredevopsservice.go: the pull-request handlers, after the once guard.  *)
(* A handler is the set of the ways it can end, one for every choice the    *)
(* environment has: which provider calls fail, what the provider holds.     *)

\* A provider call that carries a request body.
Request(api, arg, req) == [api |-> api, arg |-> arg, req |-> req]

\* The name under which a failed call is recorded.
Key(c) == Call(c.api, c.arg)

\* How a handler ended: the provider calls it issued, those that failed, and
\* "ok" (a result, nil error), "err" (an error returned) or "panic".
Outcome(calls, failed, outcome, result) ==
    [calls |-> calls, failed |-> failed, outcome |-> outcome, result |-> result]

\* A stage of a handler that was skipped.
Skipped == [calls |-> <<>>, failed |-> {}, outcome |-> "ok"]

\* The reviewers a pull request has on the provider before an update.
ExistingReviewers == {<<>>, <<"id-alice", "id-old">>}

\* The labels a pull request has on the provider before an update.
ExistingLabels == {<<"B">>}

\* How many create and delete calls of one reconciliation fail when a
\* handler runs it.
MaxServiceFailures == 1

\* The pull request the provider returns for a create request.
CreatedPullRequest(req) ==
    Ptr([PullRequestId |-> 1, Status |-> "active", MergeStatus |-> "queued",
         IsDraft |-> req.IsDraft, SourceRefName |-> req.SourceRefName,
         TargetRefName |-> req.TargetRefName, LastMergeSourceCommit |-> Nil])

\* The pull request the provider returns for an update of adoPr.
UpdatedPullRequest(adoPr, req) ==
    Ptr([PullRequestId |-> adoPr.id, Status |-> "active", MergeStatus |-> "queued",
         IsDraft |-> adoPr.isDraft, SourceRefName |-> adoPr.sourceGitRef,
         TargetRefName |-> IF IsNil(req.TargetRefName) THEN adoPr.targetGitRef
                           ELSE Deref(req.TargetRefName),
         LastMergeSourceCommit |-> Ptr("c1")])

\* getNewPullRequestLabels (pullrequest.go:120-133).  Name is the address of
\* the loop variable: one variable per iteration (Go 1.22 and later) gives the
\* labels as passed, one variable per loop (before) gives the last label
\* len(labels) times.  Both builds are possible.
getNewPullRequestLabels(labels) ==
    {labels, [i \in 1..Len(labels) |-> labels[Len(labels)]]}

\* The three dereferences of azuredevopsservice.go:289-291 and 362-364.
cachedReviewers(cache) ==
    Deref(cache.Reviewers) \o Deref(cache.TeamReviewers) \o Deref(cache.Assignees)

cacheHasNil(cache) ==
    IsNil(cache.Reviewers) \/ IsNil(cache.TeamReviewers) \/ IsNil(cache.Assignees)

\* setPullRequestAutoComplete (pullrequest.go:193-225).  Its result is
\* dropped by both callers; what reaches them is whether it panics: on a nil
\* Cache.Author (line 210) and, after a failed update call, on the nil pull
\* request handed to convertPullRequest (line 224).
setPullRequestAutoComplete(cache, pr) ==
    LET newClient == Call("newGitClient", "setPullRequestAutoComplete")
        update == Request("UpdatePullRequest", "autoComplete",
                          [AutoCompleteSetBy |-> Deref(cache.Author).IMSId,
                           DeleteSourceBranch |-> TRUE,
                           MergeStrategy |-> "squash",
                           TransitionWorkItems |-> TRUE])
    IN  {[calls |-> <<>>, failed |-> {newClient}, outcome |-> "ok"]}
        \cup IF IsNil(cache.Author)
             THEN {[calls |-> <<>>, failed |-> {}, outcome |-> "panic"]}
             \* the provider returns the pull request, or nil and an error
             ELSE {[calls |-> <<update>>, failed |-> {},
                    outcome |-> IF convertPullRequest(pr).panic THEN "panic" ELSE "ok"],
                   [calls |-> <<update>>, failed |-> {Key(update)},
                    outcome |-> IF convertPullRequest(Nil).panic THEN "panic" ELSE "ok"]}

\* CreatePullRequest after the once guard (azuredevopsservice.go:281-318).
CreatePullRequest(cache, newPR) ==
    LET newClient == Call("newGitClient", "CreatePullRequest")
        Create(labels) ==
            Request("CreatePullRequest", "create",
                    [Title |-> Ptr(newPR.Title),
                     Description |-> Ptr(newPR.Body),
                     SourceRefName |-> RefsHeads(newPR.Head),
                     TargetRefName |-> RefsHeads(newPR.Base),
                     IsDraft |-> newPR.Draft,
                     Reviewers |-> cachedReviewers(cache),
                     Labels |-> labels])
        After(create) ==
            LET createdPr == CreatedPullRequest(create.req)
                AutoComplete == IF ~newPR.Draft
                                THEN setPullRequestAutoComplete(cache, createdPr)
                                ELSE {Skipped}
            IN  {Outcome(<<create>>, {Key(create)}, "err", Nil)}
                \cup {IF ac.outcome = "panic"
                      THEN Outcome(<<create>> \o ac.calls, ac.failed, "panic", Nil)
                      ELSE Outcome(<<create>> \o ac.calls, ac.failed, "ok",
                                   convertPullRequest(createdPr).pr) : ac \in AutoComplete}
    IN  {Outcome(<<>>, {newClient}, "err", Nil)}
        \cup IF cacheHasNil(cache)
             THEN {Outcome(<<>>, {}, "panic", Nil)}
             ELSE UNION {After(Create(labels)) : labels \in getNewPullRequestLabels(newPR.Labels)}

\* The branch name taken for the target ref, without "refs/heads/".
targetRefOf_NoPrefix(base) == base

\* The target ref of an update, azuredevopsservice.go:330.
targetRefOf(base) == RefsHeads(base)

\* The reviewers reconciled on every update.
reviewersSupplied_Always(updatedPR) == TRUE

\* The condition of azuredevopsservice.go:360.
reviewersSupplied(updatedPR) ==
    Len(updatedPR.Assignees) > 0 \/ Len(updatedPR.TeamReviewers) > 0
        \/ Len(updatedPR.Reviewers) > 0

\* The ways setPullRequestReviewers can run from UpdatePullRequest.
reviewerRuns(reviewers) ==
    UNION {UNION {{setPullRequestReviewers(E, reviewers, f, o) :
                     o \in Orders(Unwanted(reviewersAfterCreate(E, reviewers, f).keep))} :
                  f \in Failures("setPullRequestReviewers", "GetPullRequestReviewers",
                                 "CreatePullRequestReviewer",
                                 {r.Id : r \in Range(reviewers)} \ Range(E),
                                 "DeletePullRequestReviewer",
                                 Range(E) \ {r.Id : r \in Range(reviewers)},
                                 MaxServiceFailures)} :
           E \in ExistingReviewers}

\* The ways setPullRequestLabels can run from UpdatePullRequest.
labelRuns(labels) ==
    UNION {UNION {{setPullRequestLabels(Ptr(E), labels, f, o) :
                     o \in Orders(Unwanted(labelsAfterCreate(Ptr(E), labels, f).keep))} :
                  f \in Failures("setPullRequestLabels", "GetPullRequestLabels",
                                 "CreatePullRequestLabel",
                                 Range(labels) \ Range(getPullRequestLabels(Ptr(E))),
                                 "DeletePullRequestLabels",
                                 Range(getPullRequestLabels(Ptr(E))) \ Range(labels),
                                 MaxServiceFailures)} :
           E \in ExistingLabels}

\* UpdatePullRequest after the once guard (azuredevopsservice.go:323-381).
UpdatePullRequest(cache, adoPr, updatedPR) ==
    LET newClient == Call("newGitClient", "UpdatePullRequest")
        targetRef == targetRefOf(updatedPR.Base)
        update ==
            Request("UpdatePullRequest", "update",
                    IF adoPr.targetGitRef # targetRef
                    THEN [Title |-> Ptr(updatedPR.Title),
                          Description |-> Ptr(updatedPR.Body),
                          TargetRefName |-> Ptr(targetRef)]
                    ELSE [Title |-> Ptr(updatedPR.Title),
                          Description |-> Ptr(updatedPR.Body),
                          TargetRefName |-> Nil])
        adoUpdatedPr == UpdatedPullRequest(adoPr, update.req)
        \* lines 360-371
        Reviewers ==
            IF reviewersSupplied(updatedPR)
            THEN IF cacheHasNil(cache)
                 THEN {[calls |-> <<>>, failed |-> {}, outcome |-> "panic"]}
                 ELSE reviewerRuns(cachedReviewers(cache))
            ELSE {Skipped}
        \* lines 373-375
        AutoComplete ==
            IF ~updatedPR.Draft THEN setPullRequestAutoComplete(cache, adoUpdatedPr)
            ELSE {Skipped}
        \* lines 377-379
        Labels ==
            IF Len(updatedPR.Labels) > 0 THEN labelRuns(updatedPR.Labels) ELSE {Skipped}
        AfterAutoComplete(calls, failed) ==
            {Outcome(calls \o lb.calls, failed \cup lb.failed, "ok",
                     convertPullRequest(adoUpdatedPr).pr) : lb \in Labels}
        AfterReviewers(calls, failed) ==
            UNION {IF ac.outcome = "panic"
                   THEN {Outcome(calls \o ac.calls, failed \cup ac.failed, "panic", Nil)}
                   ELSE AfterAutoComplete(calls \o ac.calls, failed \cup ac.failed) :
                   ac \in AutoComplete}
    IN  {Outcome(<<>>, {newClient}, "err", Nil),
         Outcome(<<update>>, {Key(update)}, "err", Nil)}
        \cup UNION {IF rv.outcome # "ok"
                    THEN {Outcome(<<update>> \o rv.calls, rv.failed, rv.outcome, Nil)}
                    ELSE AfterReviewers(<<update>> \o rv.calls, rv.failed) :
                    rv \in Reviewers}

\* The refs a repository can hold when a pull request is closed: name and
\* object id.
Refs ==
    {[Name |-> <<"refs/", "heads/", "feat">>, ObjectId |-> "o1"],
     [Name |-> <<"refs/", "heads/", "feat", "-2">>, ObjectId |-> "o2"],
     [Name |-> <<"refs/", "heads/", "main">>, ObjectId |-> "o3"]}

\* The provider's answer to GetRefs with a filter and Top = 1: the filter
\* selects the refs whose name, without "refs/", starts with it; which of
\* them comes first is the provider's choice.
GetRefs(refs, filter) ==
    LET matching == {r \in refs : HasPrefix(RemoveFirst(r.Name, "refs/"), filter)}
    IN  IF matching = {} THEN {<<>>} ELSE {<<r>> : r \in matching}

\* The empty lookup not tested for.
refLookupMissed_Never(value) == FALSE

\* The test of azuredevopsservice.go:442.
refLookupMissed(value) == Len(value) = 0

\* ClosePullRequest (azuredevopsservice.go:410-465).
ClosePullRequest(adoPr) ==
    LET newClient == Call("newGitClient", "ClosePullRequest")
        abandon == Request("UpdatePullRequest", "abandon", [Status |-> "abandoned"])
        toSearch == RemoveFirst(adoPr.sourceGitRef, "refs/")
        getRefs == Request("GetRefs", "", [Filter |-> toSearch, Top |-> 1])
        UpdateRefs(ref) ==
            Request("UpdateRefs", "",
                    [Name |-> ref.Name, OldObjectId |-> ref.ObjectId,
                     NewObjectId |-> "0000000000000000000000000000000000000000"])
        Delete(value) ==
            \* line 442: nothing found, logged, nil returned
            IF refLookupMissed(value)
            THEN {Outcome(<<abandon, getRefs>>, {}, "ok", Nil)}
            \* line 447: Value[0] of an empty list
            ELSE IF value = <<>>
            THEN {Outcome(<<abandon, getRefs>>, {}, "panic", Nil)}
            ELSE {Outcome(<<abandon, getRefs, UpdateRefs(value[1])>>, {}, "ok", Nil),
                  Outcome(<<abandon, getRefs, UpdateRefs(value[1])>>,
                          {Key(UpdateRefs(value[1]))}, "err", Nil)}
    IN  {Outcome(<<>>, {newClient}, "err", Nil),
         Outcome(<<abandon>>, {Key(abandon)}, "err", Nil),
         Outcome(<<abandon, getRefs>>, {Key(getRefs)}, "err", Nil)}
        \cup UNION {UNION {{o @@ [refs |-> refs, found |-> value] : o \in Delete(value)} :
                           value \in GetRefs(refs, toSearch)} :
                    refs \in SUBSET Refs}

-----------------------------------------------------------------------------
(* The parts of the state a specification does not use *)

NoConversion == nativePullRequest = Nil /\ converted = Nil

NoReconciliation ==
    recon = [kind |-> "none", existing |-> <<>>, desired |-> <<>>, runs |-> <<>>]

NoListing == listing = Nil

NoLookup == lookup = Nil

NumCallers == 2

Callers == 1..NumCallers

Idle == [pc |-> "idle"]

\* The service as New returns it (azuredevopsservice.go:94-100): Cache{} has
\* nil fields and a sync.Once that has not run.
ServiceInit ==
    /\ once = [done |-> FALSE, m |-> 0]
    /\ Cache = [Author |-> Nil, Reviewers |-> Nil, TeamReviewers |-> Nil, Assignees |-> Nil]
    /\ prefetchLog = <<>>
    /\ th = [t \in Callers |-> Idle]
    /\ last = Nil

-----------------------------------------------------------------------------
(* The service: callers, the once guard, the handlers *)

Main == <<"main">>

Dev == <<"dev">>

Feat == <<"feat">>

\* scm.NewPullRequest values the callers pass.
NewPRs ==
    [Title : {"t1"}, Body : {"b1"}, Head : {Feat}, Base : {Main, Dev},
     Draft : BOOLEAN,
     Reviewers : {<<>>, <<"ghost", "alice">>},
     TeamReviewers : {<<>>, <<"team">>},
     Assignees : {<<>>, <<"bob">>},
     Labels : {<<>>, <<"A">>}]

\* The two calls concurrent callers make: they differ in the reviewers.
ConcurrentPRs ==
    {pr \in NewPRs : /\ pr.Base = Main /\ pr.Draft /\ pr.Labels = <<>>
                     /\ pr.TeamReviewers = <<>> /\ pr.Assignees = <<>>
                     /\ pr.Reviewers \in {<<>>, <<"ghost", "alice">>}}

\* The pull requests (as convertPullRequest returned them earlier) that the
\* callers pass to UpdatePullRequest and ClosePullRequest.
Handles ==
    {Deref(convertPullRequest(
         Ptr([PullRequestId |-> 1, Status |-> "active", MergeStatus |-> "succeeded",
              IsDraft |-> FALSE, SourceRefName |-> RefsHeads(Feat),
              TargetRefName |-> RefsHeads(b), LastMergeSourceCommit |-> Ptr("c1")])).pr) :
     b \in {Main}}

\* A caller enters CreatePullRequest or UpdatePullRequest and reaches
\* Cache.prefetch.Do (azuredevopsservice.go:280, 322): sync.Once loads its
\* done flag and takes the slow path when it is not set.
Enter(t, op, newPR, pr) ==
    /\ th[t].pc = "idle"
    /\ last = Nil
    /\ th' = [th EXCEPT ![t] = [pc |-> IF once.done THEN "body" ELSE "doSlow",
                                op |-> op, newPR |-> newPR, pr |-> pr,
                                prefetch |-> "none"]]
    /\ UNCHANGED <<listing, lookup, nativePullRequest, converted, recon, once, Cache, prefetchLog, last>>

EnterCreatePullRequest(t, prs) ==
    \E newPR \in prs : Enter(t, "CreatePullRequest", newPR, Nil)

EnterUpdatePullRequest(t, prs) ==
    \E updatedPR \in prs : \E pr \in Handles :
        Enter(t, "UpdatePullRequest", updatedPR, Ptr(pr))

\* sync.Once.doSlow: the caller takes the mutex of the guard.
doSlowLock(t) ==
    /\ th[t].pc = "doSlow"
    /\ once.m = 0
    /\ once' = [once EXCEPT !.m = t]
    /\ th' = [th EXCEPT ![t].pc = "locked"]
    /\ UNCHANGED <<listing, lookup, nativePullRequest, converted, recon, Cache, prefetchLog, last>>

\* A guard that does not look at done again once it holds the mutex.
doSlowMustRun_NoRecheck(o) == TRUE

\* sync.Once.doSlow, under the mutex: the function runs if done is not set.
doSlowMustRun(o) == ~o.done

\* A guard that releases the mutex without recording that the function ran.
onceAfterRun_NotDone(o) == [done |-> FALSE, m |-> 0]

\* sync.Once.doSlow on its way out: done is stored, the mutex released.
onceAfterRun(o) == [done |-> TRUE, m |-> 0]

\* sync.Once.doSlow, under the mutex: the function of lines 280 / 322 runs
\* PrefetchData and drops its error; then done is set and the mutex released.
doSlowRun(t) ==
    /\ th[t].pc = "locked"
    /\ IF doSlowMustRun(once)
       THEN \E failing \in PrefetchFailures(th[t].newPR) :
               LET r == PrefetchData(Cache, th[t].newPR, failing)
               IN  /\ Cache' = r.Cache
                   /\ prefetchLog' = Append(prefetchLog,
                                            [forPR |-> th[t].newPR, err |-> r.err,
                                             cache |-> r.Cache])
                   /\ th' = [th EXCEPT ![t].pc = "body",
                                       ![t].prefetch = IF r.err THEN "err" ELSE "ok"]
       ELSE /\ th' = [th EXCEPT ![t].pc = "body"]
            /\ UNCHANGED <<Cache, prefetchLog>>
    /\ once' = onceAfterRun(once)
    /\ UNCHANGED <<listing, lookup, nativePullRequest, converted, recon, last>>

\* What `last` keeps of a call that ended.
Ended(op, newPR, pr, prefetch, o) ==
    [op |-> op, newPR |-> newPR, pr |-> pr, prefetch |-> prefetch] @@ o

\* The rest of CreatePullRequest.
CreatePullRequestBody(t) ==
    /\ th[t].pc = "body"
    /\ th[t].op = "CreatePullRequest"
    /\ \E o \in CreatePullRequest(Cache, th[t].newPR) :
          last' = Ended(th[t].op, th[t].newPR, Nil, th[t].prefetch, o)
    /\ th' = [th EXCEPT ![t] = Idle]
    /\ UNCHANGED <<listing, lookup, nativePullRequest, converted, recon, once, Cache, prefetchLog>>

\* The rest of UpdatePullRequest.
UpdatePullRequestBody(t) ==
    /\ th[t].pc = "body"
    /\ th[t].op = "UpdatePullRequest"
    /\ \E o \in UpdatePullRequest(Cache, Deref(th[t].pr), th[t].newPR) :
          last' = Ended(th[t].op, th[t].newPR, th[t].pr, th[t].prefetch, o)
    /\ th' = [th EXCEPT ![t] = Idle]
    /\ UNCHANGED <<listing, lookup, nativePullRequest, converted, recon, once, Cache, prefetchLog>>

\* A caller runs ClosePullRequest, which does not pass the once guard.
CallClosePullRequest(t) ==
    /\ th[t].pc = "idle"
    /\ last = Nil
    /\ \E pr \in Handles : \E o \in ClosePullRequest(pr) :
          last' = Ended("ClosePullRequest", Nil, Ptr(pr), "none", o)
    /\ UNCHANGED <<listing, lookup, nativePullRequest, converted, recon, once, Cache, prefetchLog, th>>

\* The caller has looked at the outcome of the call that ended.
TakeResult ==
    /\ last # Nil
    /\ last' = Nil
    /\ UNCHANGED <<listing, lookup, nativePullRequest, converted, recon, once, Cache, prefetchLog, th>>

Init ==
    /\ NoConversion
    /\ NoReconciliation
    /\ ServiceInit
    /\ NoListing
    /\ NoLookup

\* One caller that makes its calls one after the other.
Next ==
    \/ \E t \in {1} :
          \/ EnterCreatePullRequest(t, NewPRs)
          \/ EnterUpdatePullRequest(t, NewPRs)
          \/ doSlowLock(t)
          \/ doSlowRun(t)
          \/ CreatePullRequestBody(t)
          \/ UpdatePullRequestBody(t)
          \/ CallClosePullRequest(t)
    \/ TakeResult

Spec == Init /\ [][Next]_vars

\* Callers that make their calls concurrently.
ConcurrentNext ==
    \/ \E t \in Callers :
          \/ EnterCreatePullRequest(t, ConcurrentPRs)
          \/ EnterUpdatePullRequest(t, ConcurrentPRs)
          \/ doSlowLock(t)
          \/ doSlowRun(t)
          \/ CreatePullRequestBody(t)
          \/ UpdatePullRequestBody(t)
          \/ CallClosePullRequest(t)
    \/ TakeResult

SpecConcurrent == Init /\ [][ConcurrentNext]_vars

-----------------------------------------------------------------------------
(* Claims about the service *)

\* The calls of the call that ended whose api is one of `apis`.
LastCalls(apis) == {c \in Range(last.calls) : c.api \in apis}

ReviewerChanges == LastCalls({"CreatePullRequestReviewer", "DeletePullRequestReviewer"})

LabelChanges == LastCalls({"CreatePullRequestLabel", "DeletePullRequestLabels"})

AutoCompleteCalls == {c \in LastCalls({"UpdatePullRequest"}) : c.arg = "autoComplete"}

LastIs(op) == last # Nil /\ last.op = op

NoReviewersSupplied(pr) ==
    pr.Reviewers = <<>> /\ pr.TeamReviewers = <<>> /\ pr.Assignees = <<>>

\* C1: on one service instance, whatever the interleaving of concurrent
\* CreatePullRequest and UpdatePullRequest calls, PrefetchData is executed at
\* most once.
C1_PrefetchAtMostOnce == Len(prefetchLog) <= 1

\* Two concurrent calls, a create and an update, are both past the guard.
C1_Witness ==
    /\ th[1].pc = "body" /\ th[1].op = "CreatePullRequest"
    /\ th[2].pc = "body" /\ th[2].op = "UpdatePullRequest"
    /\ Len(prefetchLog) = 1

\* C7 as stated: with empty reviewer, team-reviewer, assignee and label sets
\* UpdatePullRequest issues no reviewer add/remove call, no label add/remove
\* call and no auto-complete call.
C7_NothingWithEmptySets ==
    (/\ LastIs("UpdatePullRequest")
     /\ NoReviewersSupplied(last.newPR)
     /\ last.newPR.Labels = <<>>)
    => /\ ReviewerChanges = {}
       /\ LabelChanges = {}
       /\ AutoCompleteCalls = {}

\* C7, amended: UpdatePullRequest issues no reviewer add/remove call when the
\* reviewer, team-reviewer and assignee sets are all empty and no label
\* add/remove call when the label set is empty; an auto-complete call is
\* issued only when the pull request is not a draft, whatever the sets.
C7_ReconcileOnlyWhenSupplied ==
    LastIs("UpdatePullRequest") =>
        /\ NoReviewersSupplied(last.newPR) =>
               ReviewerChanges = {} /\ LastCalls({"GetPullRequestReviewers"}) = {}
        /\ last.newPR.Labels = <<>> =>
               LabelChanges = {} /\ LastCalls({"GetPullRequestLabels"}) = {}
        /\ AutoCompleteCalls # {} => ~last.newPR.Draft

\* An update with all sets empty, after a prefetch that cached reviewers, ends
\* well having issued the auto-complete call.
C7_Witness ==
    /\ LastIs("UpdatePullRequest")
    /\ NoReviewersSupplied(last.newPR)
    /\ last.newPR.Labels = <<>>
    /\ ~IsNil(Cache.Reviewers) /\ Deref(Cache.Reviewers) # <<>>
    /\ AutoCompleteCalls # {}
    /\ last.outcome = "ok"

\* C8: when a provider call of the identity prefetch fails, the
\* CreatePullRequest or UpdatePullRequest call that triggered the prefetch
\* returns an error and issues no pull-request create or update call.
C8_PrefetchErrorAborts ==
    (last # Nil /\ last.prefetch = "err")
    => /\ last.outcome = "err"
       /\ LastCalls({"CreatePullRequest", "UpdatePullRequest"}) = {}

\* C9: the update call of UpdatePullRequest carries the target ref, and then
\* refs/heads/<base>, if and only if refs/heads/<base> differs from the
\* current target ref of the pull request; it carries title and body in
\* both cases.
C9_TargetRefIffDifferent ==
    (LastIs("UpdatePullRequest") /\ last.calls # <<>>) =>
        LET update == last.calls[1]
            wanted == <<"refs/", "heads/">> \o last.newPR.Base
        IN  /\ update.api = "UpdatePullRequest" /\ update.arg = "update"
            /\ update.req.Title = Ptr(last.newPR.Title)
            /\ update.req.Description = Ptr(last.newPR.Body)
            /\ IF wanted # Deref(last.pr).targetGitRef
               THEN update.req.TargetRefName = Ptr(wanted)
               ELSE IsNil(update.req.TargetRefName)

\* An update to the base the pull request already targets ends well: its
\* update call carries no target ref.
C9_Witness ==
    /\ LastIs("UpdatePullRequest")
    /\ last.outcome = "ok"
    /\ <<"refs/", "heads/">> \o last.newPR.Base = Deref(last.pr).targetGitRef
    /\ IsNil(last.calls[1].req.TargetRefName)
    /\ last.calls[1].req.Title = Ptr(last.newPR.Title)

\* The call of ClosePullRequest that abandons the pull request.
IsAbandon(c) ==
    c.api = "UpdatePullRequest" /\ c.arg = "abandon" /\ c.req.Status = "abandoned"

\* C10: ClosePullRequest looks up and deletes the source branch only after
\* its call abandoning the pull request succeeded; when the lookup finds no
\* ref it issues no ref update and returns success, the pull request
\* abandoned.
C10_AbandonThenBestEffortDelete ==
    LastIs("ClosePullRequest") =>
        /\ LastCalls({"GetRefs", "UpdateRefs"}) # {} =>
               /\ IsAbandon(last.calls[1])
               /\ Key(last.calls[1]) \notin last.failed
               /\ \A i \in 2..Len(last.calls) : ~IsAbandon(last.calls[i])
        /\ ("found" \in DOMAIN last /\ last.found = <<>>) =>
               /\ LastCalls({"UpdateRefs"}) = {}
               /\ last.outcome = "ok"
               /\ IsAbandon(last.calls[1])
               /\ Key(last.calls[1]) \notin last.failed

\* The repository holds refs, none matches the source branch: the pull
\* request is abandoned and the call succeeds without a ref update.
C10_Witness ==
    /\ LastIs("ClosePullRequest")
    /\ "found" \in DOMAIN last
    /\ last.refs # {}
    /\ last.found = <<>>
    /\ last.outcome = "ok"
    /\ Len(last.calls) = 2

-----------------------------------------------------------------------------
(* Specification of the status conversion *)

\* The pull requests the provider can return, and nil (what an SDK call
\* returns along with an error).
NativePullRequests ==
    {Nil} \cup
    {Ptr(n) : n \in [PullRequestId : {1},
                     Status : PullRequestStatusValues,
                     MergeStatus : PullRequestAsyncStatusValues,
                     IsDraft : BOOLEAN,
                     SourceRefName : {<<"refs/", "heads/", "feat">>},
                     TargetRefName : {<<"refs/", "heads/", "main">>},
                     LastMergeSourceCommit : {Nil, Ptr("c1")}]}

StatusInit ==
    /\ nativePullRequest \in NativePullRequests
    /\ converted = Nil
    /\ NoReconciliation
    /\ ServiceInit
    /\ NoListing
    /\ NoLookup

Convert ==
    /\ converted = Nil
    /\ converted' = Ptr(convertPullRequest(nativePullRequest))
    /\ UNCHANGED <<listing, lookup, nativePullRequest, recon, once, Cache, prefetchLog, th, last>>

StatusNext == Convert

SpecStatus == StatusInit /\ [][StatusNext]_vars

\* The converted status of a pull request with the given lifecycle and merge
\* status is `status`.
ConvertsTo(prStatus, mergeStatuses, status) ==
    (/\ converted # Nil
     /\ nativePullRequest # Nil
     /\ Deref(nativePullRequest).Status = prStatus
     /\ Deref(nativePullRequest).MergeStatus \in mergeStatuses)
    => /\ ~Deref(converted).panic
       /\ Deref(Deref(converted).pr).status = status

Converted(prStatus, mergeStatus) ==
    /\ converted # Nil
    /\ nativePullRequest # Nil
    /\ Deref(nativePullRequest).Status = prStatus
    /\ Deref(nativePullRequest).MergeStatus = mergeStatus

\* C5: an active pull request whose merge status is conflicts, failure or
\* rejected-by-policy converts to the status error.
C5_ActiveFailedIsError ==
    ConvertsTo("active", {"conflicts", "failure", "rejectedByPolicy"}, "error")

\* C6 as stated: an active pull request whose merge status is queued or
\* not-set converts to the status pending.
C6_ActiveQueuedOrNotSetIsPending ==
    ConvertsTo("active", {"queued", "notSet"}, "pending")

\* C6, amended: an active pull request whose merge status is queued converts
\* to pending, and one whose merge status is not-set converts to unknown.
C6_ActiveQueuedPendingNotSetUnknown ==
    /\ ConvertsTo("active", {"queued"}, "pending")
    /\ ConvertsTo("active", {"notSet"}, "unknown")

C6_Witness ==
    /\ Converted("active", "notSet")
    /\ Deref(Deref(converted).pr).status = "unknown"

-----------------------------------------------------------------------------
(* Specification of the reconciliation *)

ReconcileInit ==
    /\ ReconInit
    /\ NoConversion
    /\ ServiceInit
    /\ NoListing
    /\ NoLookup

ReconcileNext == ReconcileLabels \/ ReconcileReviewers

SpecReconcile == ReconcileInit /\ [][ReconcileNext]_vars

\* The items one run of the reconciler asked the provider to create / delete.
Creates(run) ==
    {c.arg : c \in {d \in Range(run.calls) :
                      d.api \in {"CreatePullRequestLabel", "CreatePullRequestReviewer"}}}

Deletes(run) ==
    {c.arg : c \in {d \in Range(run.calls) :
                      d.api \in {"DeletePullRequestLabels", "DeletePullRequestReviewer"}}}

\* Every provider call of the run succeeded and the reconciler returned.
FullySuccessful(run) == run.failed = {} /\ run.outcome = "ok"

\* The run got the current set from the provider.
Listed(run) ==
    \A c \in run.failed : c.api \notin {"newGitClient", "GetPullRequestLabels",
                                         "GetPullRequestReviewers"}

Desired == Range(recon.desired)

\* C2: when all provider calls succeed, the reconciler (reviewers and labels)
\* issues a create call for exactly the desired items that do not exist, a
\* delete call for exactly the existing items that are not desired, and no
\* other create or delete call.
C2_Convergence ==
    \A i \in DOMAIN recon.runs :
        LET run == recon.runs[i]
            Existing == Range(run.before)
        IN  FullySuccessful(run) =>
                /\ Creates(run) = Desired \ Existing
                /\ Deletes(run) = Existing \ Desired

\* C3: a second run of the reconciler (reviewers and labels) with the same
\* desired set, against the provider state a fully successful first run
\* left, issues no create call and no delete call.
C3_Idempotence ==
    \A i \in DOMAIN recon.runs :
        (i > 1 /\ FullySuccessful(recon.runs[i - 1])) =>
            /\ Creates(recon.runs[i]) = {}
            /\ Deletes(recon.runs[i]) = {}

\* C4: failed create or delete calls are skipped: a reconciliation (reviewers
\* and labels) that got the current set still issues the create call of every
\* desired item that does not exist and the delete call of every unwanted
\* item, and ends without an error or abort.
C4_FailuresSkipped ==
    \A i \in DOMAIN recon.runs :
        LET run == recon.runs[i]
            Existing == Range(run.before)
        IN  Listed(run) =>
                /\ run.outcome = "ok"
                /\ Desired \ Existing \subseteq Creates(run)
                /\ Existing \ Desired \subseteq Deletes(run)

-----------------------------------------------------------------------------
(* project.go, repository.go, azuredevopsservice.go: the repository listing. *)
(* A project or repository name is a sequence of chunks; in a repository     *)
(* reference "/" is a chunk of its own: "P1/r1" is <<"P1", "/", "r1">>.      *)

\* strings.Split(s, sep) for a one-chunk sep: the parts between the
\* separators; a string without separator is its only part.
RECURSIVE Split(_, _)
Split(s, sep) ==
    IF s = <<>> THEN << <<>> >>
    ELSE LET rest == Split(Tail(s), sep)
         IN  IF Head(s) = sep THEN << <<>> >> \o rest
             ELSE << <<Head(s)>> \o rest[1] >> \o Tail(rest)

\* strings.Replace(s, old, "", 1) for an `old` of several chunks.
RECURSIVE RemoveFirstSeq(_, _)
RemoveFirstSeq(s, old) ==
    IF HasPrefix(s, old) THEN SubSeq(s, Len(old) + 1, Len(s))
    ELSE IF s = <<>> THEN <<>>
    ELSE <<Head(s)>> \o RemoveFirstSeq(Tail(s), old)

\* uuid.UUID.String(): an id is a number, its string the digits.
String(id) == ToString(id)

\* The first loop of ParseRepositoryReference, azuredevopsservice.go:56-70.
RECURSIVE parseLoop(_, _, _)
parseLoop(repositoryToFetch, i, repositories) ==
    IF i > Len(repositoryToFetch) THEN [err |-> FALSE, repositories |-> repositories]
    ELSE LET split == Split(repositoryToFetch[i], "/")
         IN  IF Len(split) # 2 THEN [err |-> TRUE, repositories |-> EmptyMap]
             ELSE LET projectName == split[1]
                      repositoryName == split[2]
                  IN  parseLoop(repositoryToFetch, i + 1,
                          IF projectName \in DOMAIN repositories
                          THEN Put(repositories, projectName,
                                   Append(repositories[projectName], repositoryName))
                          ELSE Put(repositories, projectName, <<repositoryName>>))

\* ParseRepositoryReference (azuredevopsservice.go:53-81): the map, and its
\* keys in one of the orders maps.Keys can give them.
ParseRepositoryReference(projectToFetch, repositoryToFetch) ==
    LET parsed == parseLoop(repositoryToFetch, 1, EmptyMap)
        repositories ==
            [p \in DOMAIN parsed.repositories \cup Range(projectToFetch) |->
                IF p \in DOMAIN parsed.repositories THEN parsed.repositories[p] ELSE <<>>]
    IN  IF parsed.err THEN {[err |-> TRUE, Projects |-> <<>>, Repositories |-> EmptyMap]}
        ELSE {[err |-> FALSE, Projects |-> keys, Repositories |-> repositories] :
                 keys \in Orders(DOMAIN repositories)}

\* The provider's answer to core GetProjects with a state filter.
ProviderGetProjects(projects, stateFilter) ==
    SelectSeq(projects, LAMBDA p : p.State = stateFilter)

\* GetProjects (project.go:15-38).
GetProjects(cfg, provider, failing) ==
    LET newClient == Call("newCoreClient", "")
        get == Call("GetProjects", "wellFormed")
        projects == ProviderGetProjects(provider.projects, "wellFormed")
        wanted == SelectSeq(projects, LAMBDA p : p.Name \in Range(cfg.Projects))
    IN  IF newClient \in failing
        THEN [calls |-> <<>>, failed |-> {newClient}, err |-> TRUE, result |-> <<>>]
        ELSE IF get \in failing
        THEN [calls |-> <<get>>, failed |-> {get}, err |-> TRUE, result |-> <<>>]
        ELSE [calls |-> <<get>>, failed |-> {}, err |-> FALSE,
              result |-> [i \in 1..Len(wanted) |->
                             [projectId |-> String(wanted[i].Id),
                              projectName |-> wanted[i].Name]]]

\* The clone URL, repository.go:32-37 and pullrequest.go:323-328.
cloneURL(cfg, nativeRepository) ==
    IF cfg.SSHAuth THEN Deref(nativeRepository.SshUrl)
    ELSE Deref(nativeRepository.RemoteUrl)

\* convertRepository of repository.go:30-47: the default branch is
\* dereferenced without a test (line 45); a nil one panics.
convertRepositoryOld(cfg, nativeRepository) ==
    IF IsNil(nativeRepository.DefaultBranch)
    THEN [outcome |-> "panic", repository |-> Nil]
    ELSE [outcome |-> "ok",
          repository |-> Ptr([id |-> String(nativeRepository.Id),
                              projectId |-> String(nativeRepository.Project.Id),
                              url |-> cloneURL(cfg, nativeRepository),
                              name |-> nativeRepository.Name,
                              projectName |-> nativeRepository.Project.Name,
                              defaultBranch |-> Deref(nativeRepository.DefaultBranch)])]

\* convertRepository of pullrequest.go:318-341: a nil default branch is an
\* error (line 319-321).
convertRepositoryNew(cfg, nativeRepository) ==
    IF IsNil(nativeRepository.DefaultBranch)
    THEN [outcome |-> "err", repository |-> Nil]
    ELSE [outcome |-> "ok",
          repository |-> Ptr([projectId |-> String(nativeRepository.Project.Id),
                              projectName |-> nativeRepository.Project.Name,
                              id |-> String(nativeRepository.Id),
                              url |-> cloneURL(cfg, nativeRepository),
                              name |-> nativeRepository.Name,
                              defaultBranch |->
                                  RemoveFirstSeq(Deref(nativeRepository.DefaultBranch),
                                                 <<"refs/", "heads/">>),
                              defaultBranchRef |-> Deref(nativeRepository.DefaultBranch)])]

\* The source holds convertRepository twice; a build has one of them.
convertRepository(cfg, nativeRepository) ==
    IF cfg.revision = "repository.go" THEN convertRepositoryOld(cfg, nativeRepository)
    ELSE convertRepositoryNew(cfg, nativeRepository)

\* The test of azuredevopsservice.go:191 with every listed repository taken.
isSelected_All(repos, name) == TRUE

\* The tests of azuredevopsservice.go:191 and 197 on the sub-list of a
\* project: the repository is named in it, or the sub-list is empty.
isSelected(repos, name) ==
    (Len(repos) # 0 /\ name \in Range(repos)) \/ Len(repos) = 0

\* The loop over the repositories of one project, azuredevopsservice.go:178-207.
RECURSIVE repositoriesLoop(_, _, _, _, _)
repositoriesLoop(cfg, project, projectScopedRepositories, i, repositories) ==
    IF i > Len(projectScopedRepositories)
    THEN [outcome |-> "ok", repositories |-> repositories]
    ELSE LET adoRepository == projectScopedRepositories[i]
             continue == repositoriesLoop(cfg, project, projectScopedRepositories,
                                          i + 1, repositories)
             repository == convertRepository(cfg, adoRepository)
             append == IF repository.outcome # "ok"
                       THEN [outcome |-> repository.outcome, repositories |-> <<>>]
                       ELSE repositoriesLoop(cfg, project, projectScopedRepositories, i + 1,
                                             Append(repositories, Deref(repository.repository)))
         IN  IF adoRepository.IsDisabled THEN continue
             ELSE IF cfg.SkipForks /\ ~IsNil(adoRepository.IsFork)
                     /\ Deref(adoRepository.IsFork) THEN continue
             \* line 189: a project without entry in the map adds nothing
             ELSE IF project.projectName \in DOMAIN cfg.Repositories
             THEN IF isSelected(cfg.Repositories[project.projectName], adoRepository.Name)
                  THEN append ELSE continue
             ELSE continue

\* The list returned with the error of a failed listing call with the
\* repositories collected so far.
listingError_Partial(repositories) == Ptr(repositories)

\* What GetRepositories returns with the error of a failed listing call,
\* azuredevopsservice.go:174-176.
listingError(repositories) == Nil

\* The loop over the projects, azuredevopsservice.go:170-208.
RECURSIVE projectsLoop(_, _, _, _, _, _, _)
projectsLoop(cfg, provider, allProjectsUnderUser, i, repositories, calls, failing) ==
    IF i > Len(allProjectsUnderUser) THEN Outcome(calls, {}, "ok", Ptr(repositories))
    ELSE LET project == allProjectsUnderUser[i]
             get == Call("GetRepositories", project.projectId)
             scoped == repositoriesLoop(cfg, project, provider.repositories[project.projectId],
                                        1, repositories)
         IN  IF get \in failing
             THEN Outcome(Append(calls, get), {get}, "err", listingError(repositories))
             ELSE IF scoped.outcome # "ok"
             THEN Outcome(Append(calls, get), {}, scoped.outcome, Nil)
             ELSE projectsLoop(cfg, provider, allProjectsUnderUser, i + 1,
                               scoped.repositories, Append(calls, get), failing)

\* GetRepositories (azuredevopsservice.go:158-211).
GetRepositories(cfg, provider, failing) ==
    LET allProjectsUnderUser == GetProjects(cfg, provider, failing)
        newClient == Call("newGitClient", "GetRepositories")
    IN  IF allProjectsUnderUser.err
        THEN Outcome(allProjectsUnderUser.calls, allProjectsUnderUser.failed, "err", Nil)
        ELSE IF newClient \in failing
        THEN Outcome(allProjectsUnderUser.calls, {newClient}, "err", Nil)
        ELSE projectsLoop(cfg, provider, allProjectsUnderUser.result, 1, <<>>,
                          allProjectsUnderUser.calls, failing)

-----------------------------------------------------------------------------
(* Specification of the repository listing *)

MaxRepos == 2

P1 == <<"P1">>

P2 == <<"P2">>

P3 == <<"P3">>

\* The projects of the organisation: core.TeamProjectReference values.  P3 is
\* not well-formed.
ProviderProjects ==
    <<[Name |-> P1, Id |-> 1, State |-> "wellFormed"],
      [Name |-> P2, Id |-> 2, State |-> "wellFormed"],
      [Name |-> P3, Id |-> 3, State |-> "createPending"]>>

\* A git.GitRepository of the provider.
GitRepository(id, name, project, isDisabled, isFork, defaultBranch) ==
    [Id |-> id, Name |-> <<name>>,
     Project |-> [Id |-> project.Id, Name |-> project.Name],
     SshUrl |-> Ptr(<<"ssh:", name>>), RemoteUrl |-> Ptr(<<"https:", name>>),
     IsDisabled |-> isDisabled, IsFork |-> isFork, DefaultBranch |-> defaultBranch]

\* The repositories P1 can hold: a plain one, a disabled one, a fork, one
\* without default branch (not initialized), one that does not say whether
\* it is a fork.
RepositoriesOfP1 ==
    LET p == ProviderProjects[1]
    IN  {GitRepository(11, "r1", p, FALSE, Ptr(FALSE), Ptr(<<"refs/", "heads/", "main">>)),
         GitRepository(12, "r2", p, TRUE, Ptr(FALSE), Ptr(<<"refs/", "heads/", "main">>)),
         GitRepository(13, "r3", p, FALSE, Ptr(TRUE), Ptr(<<"refs/", "heads/", "main">>)),
         GitRepository(14, "r4", p, FALSE, Ptr(FALSE), Nil),
         GitRepository(15, "r5", p, FALSE, Nil,
                       Ptr(<<"refs/", "heads/", "refs/", "heads/", "x">>))}

\* What the provider holds: the projects, and the repositories of each by
\* project id.
Providers ==
    {[projects |-> ProviderProjects,
      repositories |->
          [id \in {String(ProviderProjects[i].Id) : i \in DOMAIN ProviderProjects} |->
              IF id = String(1) THEN ofP1
              ELSE IF id = String(2)
              THEN <<GitRepository(21, "q1", ProviderProjects[2], FALSE, Ptr(FALSE),
                                   Ptr(<<"refs/", "heads/", "dev">>))>>
              ELSE <<>>]] :
     ofP1 \in Lists(RepositoriesOfP1, MaxRepos)}

\* Config (azuredevopsservice.go:34-37), the SkipForks flag, and which of the
\* two convertRepository the build has.
Settings == [SSHAuth : BOOLEAN, SkipForks : BOOLEAN, revision : {"repository.go", "pullrequest.go"}]

\* The project and repository references a user passes.
ProjectsToFetch == {<<>>, <<P1>>, <<P1, P2>>, <<P3>>}

RepositoriesToFetch ==
    {<<>>, <<<<"P1", "/", "r1">>>>, <<<<"P1", "/", "r1">>, <<"P1", "/", "r3">>>>,
     <<<<"P2", "/", "q0">>>>, <<<<"r1">>>>}

\* RepositoryListing values built without ParseRepositoryReference: the map
\* has no entry for some of the projects.
DirectListings ==
    {[Projects |-> <<P1, P2>>, Repositories |-> EmptyMap],
     [Projects |-> <<P1, P2>>, Repositories |-> [p \in {P2} |-> <<>>]]}

ListingInit ==
    /\ listing \in
          {[args |-> a, settings |-> st, provider |-> pv, parse |-> "none",
            filter |-> Nil, result |-> Nil, conversion |-> Nil] :
             a \in [projectToFetch : ProjectsToFetch, repositoryToFetch : RepositoriesToFetch]
                   \cup [filter : DirectListings],
             st \in Settings, pv \in Providers}
    /\ NoLookup
    /\ NoConversion
    /\ NoReconciliation
    /\ ServiceInit

\* The caller parses its references and builds the service with the result
\* (New, azuredevopsservice.go:83-101); a reference that does not parse ends
\* the run.
ParseAndNew ==
    /\ listing.parse = "none"
    /\ "repositoryToFetch" \in DOMAIN listing.args
    /\ \E parsed \in ParseRepositoryReference(listing.args.projectToFetch,
                                              listing.args.repositoryToFetch) :
          listing' = [listing EXCEPT
              !.parse = IF parsed.err THEN "err" ELSE "ok",
              !.filter = IF parsed.err THEN Nil
                         ELSE Ptr([Projects |-> parsed.Projects,
                                   Repositories |-> parsed.Repositories])]
    /\ UNCHANGED <<lookup, nativePullRequest, converted, recon, once, Cache, prefetchLog, th, last>>

\* The caller builds the service with a RepositoryListing of its own.
NewWithListing ==
    /\ listing.parse = "none"
    /\ "filter" \in DOMAIN listing.args
    /\ listing' = [listing EXCEPT !.parse = "direct", !.filter = Ptr(listing.args.filter)]
    /\ UNCHANGED <<lookup, nativePullRequest, converted, recon, once, Cache, prefetchLog, th, last>>

\* The service's RepositoryListing and Config.
ServiceConfig == Deref(listing.filter) @@ listing.settings

\* The failures the environment can choose for one listing: the listing ends
\* at the first call that fails.
ListingFailures ==
    {{}} \cup {{c} : c \in {Call("newCoreClient", ""), Call("GetProjects", "wellFormed"),
                            Call("newGitClient", "GetRepositories")}
                           \cup {Call("GetRepositories", String(ProviderProjects[i].Id)) :
                                   i \in DOMAIN ProviderProjects}}

CallGetRepositories ==
    /\ listing.filter # Nil
    /\ listing.result = Nil
    /\ \E failing \in ListingFailures :
          listing' = [listing EXCEPT
              !.result = Ptr(GetRepositories(ServiceConfig, listing.provider, failing))]
    /\ UNCHANGED <<lookup, nativePullRequest, converted, recon, once, Cache, prefetchLog, th, last>>

\* convertRepository on one repository of the provider.
CallConvertRepository ==
    /\ listing.filter # Nil
    /\ listing.conversion = Nil
    /\ \E id \in DOMAIN listing.provider.repositories :
          \E nativeRepository \in Range(listing.provider.repositories[id]) :
             listing' = [listing EXCEPT
                 !.conversion = Ptr([given |-> nativeRepository] @@
                                    convertRepository(ServiceConfig, nativeRepository))]
    /\ UNCHANGED <<lookup, nativePullRequest, converted, recon, once, Cache, prefetchLog, th, last>>

ListingNext ==
    \/ ParseAndNew
    \/ NewWithListing
    \/ CallGetRepositories
    \/ CallConvertRepository

SpecListing == ListingInit /\ [][ListingNext]_vars

-----------------------------------------------------------------------------
(* Claims about the repository listing *)

\* GetRepositories has been called and returned a list.
Listed_Ok == listing.result # Nil /\ Deref(listing.result).outcome = "ok"

\* The list GetRepositories returned.
ListedRepositories == Deref(Deref(listing.result).result)

\* The provider's repository with the given id string.
NativeOf(id) ==
    CHOOSE n \in UNION {Range(listing.provider.repositories[p]) :
                           p \in DOMAIN listing.provider.repositories} : String(n.Id) = id

\* The well-formed projects of the provider that the allow-list names.
ResolvedProjects ==
    {p \in Range(listing.provider.projects) :
        p.State = "wellFormed" /\ p.Name \in Range(Deref(listing.filter).Projects)}

\* The repository sub-list configured for a project: none when the map has
\* no entry for it.
SubList(p) ==
    IF p.Name \in DOMAIN Deref(listing.filter).Repositories
    THEN Deref(listing.filter).Repositories[p.Name] ELSE <<>>

\* The repositories of a resolved project that the listing is to return.
Wanted(p) ==
    {n \in Range(listing.provider.repositories[String(p.Id)]) :
        /\ ~n.IsDisabled
        /\ ~(listing.settings.SkipForks /\ n.IsFork = Ptr(TRUE))
        /\ SubList(p) # <<>> => n.Name \in Range(SubList(p))}

\* C11: the list GetRepositories returns holds, for every resolved project,
\* exactly its repositories that are not disabled, are not forks when
\* SkipForks is set, and are named in the project's sub-list when that is not
\* empty; with an empty or absent sub-list all the remaining ones.
C11_ListsExactlySelected ==
    Listed_Ok =>
        /\ {r.id : r \in Range(ListedRepositories)}
             = {String(n.Id) : n \in UNION {Wanted(p) : p \in ResolvedProjects}}
        /\ \A i, j \in DOMAIN ListedRepositories :
               ListedRepositories[i].id = ListedRepositories[j].id => i = j

\* C12: converting a repository without default branch gives an error and no
\* repository value, and no list GetRepositories returns holds a repository
\* without default branch.
C12_NoDefaultBranchRejected ==
    /\ (listing.conversion # Nil /\ IsNil(Deref(listing.conversion).given.DefaultBranch))
       => /\ Deref(listing.conversion).outcome = "err"
          /\ IsNil(Deref(listing.conversion).repository)
    /\ Listed_Ok =>
           \A r \in Range(ListedRepositories) : ~IsNil(NativeOf(r.id).DefaultBranch)

\* The calls of the listing that list the repositories of a project.
ListingCalls == {c \in Range(Deref(listing.result).calls) : c.api = "GetRepositories"}

Leading(ref) ==
    IF Len(ref) >= 2 /\ ref[1] = "refs/" /\ ref[2] = "heads/"
    THEN [i \in 1..(Len(ref) - 2) |-> ref[i + 2]] ELSE ref

\* C14: converting a repository that has a default branch succeeds; the clone
\* URL is the SSH URL when SSHAuth is set and the remote HTTP URL otherwise,
\* the default branch is the default-branch ref without its leading
\* refs/heads/, the default branch ref is the full ref, and id, name, project
\* id and project name are those of the provider's repository.
C14_ConvertsRepository ==
    (listing.conversion # Nil /\ ~IsNil(Deref(listing.conversion).given.DefaultBranch))
    => LET c == Deref(listing.conversion)
           given == c.given
       IN  /\ c.outcome = "ok"
           /\ ~IsNil(c.repository)
           /\ LET r == Deref(c.repository)
              IN  /\ r.url = IF listing.settings.SSHAuth THEN Deref(given.SshUrl)
                                                         ELSE Deref(given.RemoteUrl)
                  /\ r.defaultBranch = Leading(Deref(given.DefaultBranch))
                  /\ "defaultBranchRef" \in DOMAIN r
                  /\ r.defaultBranchRef = Deref(given.DefaultBranch)
                  /\ r.id = String(given.Id)
                  /\ r.name = given.Name
                  /\ r.projectId = String(given.Project.Id)
                  /\ r.projectName = given.Project.Name

-----------------------------------------------------------------------------
(* Specification of the identity resolution *)

MaxNames == 3

\* Names a caller asks for; nobody matches "ghost".
Names == {"alice", "bob", "team", "ghost"}

LookupInit ==
    /\ lookup \in [identities : SeqsUpTo(Names, MaxNames), result : {Nil}]
    /\ NoListing
    /\ NoConversion
    /\ NoReconciliation
    /\ ServiceInit

\* The failures the environment can choose for one resolution: it ends at the
\* first call that fails.
LookupFailures(apis, identities) ==
    {{}} \cup {{Call(a, "")} : a \in {"newIdentityClient", "newGraphClient", "ReadIdentityBatch"}
                                     \cap apis}
         \cup {{Call(a, n)} : a \in {"ReadIdentities", "QuerySubjects"} \cap apis,
                              n \in Range(identities)}

\* PrefetchData's calls of getLegacyIdentities (azuredevopsservice.go:137-149).
CallGetLegacyIdentities ==
    /\ lookup.result = Nil
    /\ \E failing \in LookupFailures({"newIdentityClient", "ReadIdentities"}, lookup.identities) :
          lookup' = [lookup EXCEPT
              !.result = Ptr([fn |-> "getLegacyIdentities", failing |-> failing]
                             @@ getLegacyIdentities(lookup.identities, failing))]
    /\ UNCHANGED <<listing, nativePullRequest, converted, recon, once, Cache, prefetchLog, th, last>>

\* A call of getIdentities, the resolution through the graph API.
CallGetIdentities ==
    /\ lookup.result = Nil
    /\ \E failing \in LookupFailures({"newIdentityClient", "newGraphClient", "QuerySubjects",
                                      "ReadIdentityBatch"}, lookup.identities) :
          lookup' = [lookup EXCEPT
              !.result = Ptr([fn |-> "getIdentities", failing |-> failing]
                             @@ getIdentities(lookup.identities, failing))]
    /\ UNCHANGED <<listing, nativePullRequest, converted, recon, once, Cache, prefetchLog, th, last>>

LookupNext == CallGetLegacyIdentities \/ CallGetIdentities

SpecLookup == LookupInit /\ [][LookupNext]_vars

\* The names of the list that at least one identity matches, in input order.
Matched(fn) ==
    SelectSeq(lookup.identities,
              LAMBDA n : IF fn = "getIdentities" THEN QuerySubjects(n) # <<>>
                         ELSE ReadIdentities(n) # <<>>)

\* C15: when its lookups succeed, the resolution of a list of names returns
\* no error; its result holds, in input order, one descriptor for each name
\* that has a match, that of the first match, and none for a name without
\* match.
C15_NoMatchDropped ==
    (lookup.result # Nil /\ Deref(lookup.result).failing = {}) =>
        LET r == Deref(lookup.result)
            matched == Matched(r.fn)
        IN  /\ ~r.err
            /\ Len(r.descriptors) = Len(matched)
            /\ \A i \in DOMAIN matched :
                   IF r.fn = "getIdentities"
                   THEN r.descriptors[i].VSId = QuerySubjects(matched[i])[1].Descriptor
                   ELSE /\ r.descriptors[i].VSId = ReadIdentities(matched[i])[1].SubjectDescriptor
                        /\ r.descriptors[i].IMSId = ReadIdentities(matched[i])[1].Id

\* Three names, the first without match and the second with two: the two
\* descriptors of the names that match, in their order.
C15_Witness ==
    /\ lookup.identities = <<"ghost", "team", "alice">>
    /\ lookup.result # Nil
    /\ Deref(lookup.result).fn = "getLegacyIdentities"
    /\ Deref(lookup.result).failing = {}
    /\ ~Deref(lookup.result).err
    /\ Len(Deref(lookup.result).descriptors) = 2
    /\ Deref(lookup.result).descriptors[1].IMSId = "id-team"
    /\ Deref(lookup.result).descriptors[2].IMSId = "id-alice"

-----------------------------------------------------------------------------
(* Further claims about the service *)

\* C16: every ref update to the all-zero object id that ClosePullRequest
\* issues names the source ref of the closed pull request, whatever refs the
\* repository holds.
C16_DeletesOnlySourceRef ==
    LastIs("ClosePullRequest") =>
        \A c \in LastCalls({"UpdateRefs"}) :
            c.req.NewObjectId = "0000000000000000000000000000000000000000"
            => c.req.Name = Deref(last.pr).sourceGitRef

\* The identities the provider resolves a list of names to: the first match
\* of every name that has one.
Resolved(names, isRequired) ==
    LET matched == SelectSeq(names, LAMBDA n : ReadIdentities(n) # <<>>)
    IN  [i \in 1..Len(matched) |->
            [Id |-> ReadIdentities(matched[i])[1].Id, Vote |-> 0,
             IsRequired |-> isRequired, DisplayName |-> Nil]]

\* The reviewers of the call that ran the prefetch.
FirstReviewers ==
    LET forPR == prefetchLog[1].forPR
    IN  Resolved(forPR.Reviewers, FALSE) \o Resolved(forPR.TeamReviewers, FALSE)
            \o Resolved(forPR.Assignees, TRUE)

\* The call that ended sent the reviewers of the call that ran the prefetch:
\* a create request carries them, a reviewer reconciliation adds none but
\* them and removes none of them.
SendsFirstReviewers ==
    (LastIs("CreatePullRequest") \/ LastIs("UpdatePullRequest")) =>
        /\ \A c \in LastCalls({"CreatePullRequest"}) : c.req.Reviewers = FirstReviewers
        /\ \A c \in LastCalls({"CreatePullRequestReviewer"}) :
               c.arg \in {r.Id : r \in Range(FirstReviewers)}
        /\ \A c \in LastCalls({"DeletePullRequestReviewer"}) :
               c.arg \notin {r.Id : r \in Range(FirstReviewers)}

\* C17: once a CreatePullRequest or UpdatePullRequest call has run the
\* prefetch, the cache never changes: it stays as that prefetch left it, and
\* every call that ends later sends the reviewer identities resolved from the
\* names of the call that ran the prefetch, whatever names it supplies itself.
C17_CacheFrozenAfterPrefetch ==
    prefetchLog # <<>> =>
        /\ Cache = prefetchLog[1].cache
        /\ SendsFirstReviewers

\* A create call that supplies other reviewer names than the call that ran
\* the prefetch ends well, its request carrying the reviewers of that call.
C17_Witness ==
    /\ LastIs("CreatePullRequest")
    /\ last.outcome = "ok"
    /\ last.prefetch = "none"
    /\ prefetchLog # <<>>
    /\ prefetchLog[1].forPR.Reviewers = <<"ghost", "alice">>
    /\ last.newPR.Reviewers = <<>>
    /\ last.newPR.Assignees = <<"bob">>
    /\ {r.Id : r \in Range(last.calls[1].req.Reviewers)} = {"id-alice"}

\* C18: when the provider created a pull request that is not a draft and the
\* auto-complete update call then fails, CreatePullRequest ends normally and
\* returns the created pull request without error.
C18_AutoCompleteBestEffort ==
    (/\ LastIs("CreatePullRequest")
     /\ ~last.newPR.Draft
     /\ \E c \in LastCalls({"CreatePullRequest"}) : Key(c) \notin last.failed
     /\ \E c \in AutoCompleteCalls : Key(c) \in last.failed)
    => /\ last.outcome = "ok"
       /\ ~IsNil(last.result)

====
